---- MODULE Spec2Model ----
(***************************************************************************)
(* A model of src/src/octarine.cpp: the one-time backend initialisation    *)
(* guard of Runtime::Runtime, the exchange heap over the system allocator, *)
(* Option, NamespaceEntry, Hashtable and the Runtime constructor and       *)
(* destructor.                                                             *)
(*                                                                         *)
(* The file has two platform sections (_WIN32 and __APPLE__).  The model   *)
(* covers the builds in which the three atomic primitives have a body:     *)
(* _WIN32 with OCT_32 or OCT_64, and __APPLE__ with OCT_64.                *)
(***************************************************************************)
EXTENDS Integers, Sequences, FiniteSets, TLC

\* ------------------------------------------------------------------ bounds
NThreads == 3
HeapSlots == 4      \* blocks the system allocator can have live at once
MaxAllocs == 3      \* calls of SYS.alloc in one run of the heap model
MaxLen == 1         \* array lengths tried by the heap model: 0..MaxLen
SlotStride == 4096  \* distance between the addresses malloc hands out
NOpts == 2          \* Option cells of the Option model
MaxVal == 2         \* the values an Option holds: 0..MaxVal
MaxObjs == 3        \* objects bound in the binding model
MaxDirty == 2       \* slots of a fresh entries array that may hold any bytes

\* --------------------------------------------------------- program values
True == 1
False == 0

Platforms == {"win32", "win64", "apple64"}
Threads == 1..NThreads

VARIABLES
    platform,       \* the build: which #ifdef section of the file is compiled
    didLLVMInit,    \* static volatile Uword didLLVMInit
    doingLLVMInit,  \* static volatile Uword doingLLVMInit
    gpc,            \* per thread: position inside Runtime::Runtime's guard
    gph,            \* per thread: position inside an __APPLE__ atomic loop
    gtmp,           \* per thread: the local old/val of an atomic primitive
    initCalls,      \* number of calls of llvm::InitializeNativeTarget
    backendReady,   \* the side effects of llvm::InitializeNativeTarget
    observed,       \* per thread: what createJIT found of the backend
    waited,         \* per thread: it has run SYS.sleep(0) in the busy-wait
    sysLive,        \* the system allocator: live blocks [addr, size]
    sysAllocCalls,  \* calls of ::malloc that returned a block
    sysFreeCalls,   \* calls of ::free
    sysBadFree,     \* addresses handed to ::free that are no live block
    heapErr,        \* "bad_alloc" once SYS.alloc has thrown
    boxes,          \* payloads handed out by the exchange heap, not yet freed
    freeLog,        \* per ExchangeHeap::free call: payload, block, address freed
    opts,           \* Option<T> cells: [variant, value]
    optCall,        \* the last call on a cell: what it got and gave
    bindings,       \* per binding name: a NamespaceEntry [variant, obj]
    dtorCalls,      \* per object: calls of its Object.dtor capability
    nextObj,        \* the next object to be bound
    bpc,            \* "idle", or "install" inside an overwrite
    pending,        \* the overwrite in progress: [name, entry]
    exited,         \* entries that have left their slot: [variant, obj]
    rpc,            \* position in Runtime::Runtime / Runtime::~Runtime
    ci,             \* ~Runtime: the iterator over _contexts
    ee,             \* _ee: "none", "live", "null" or "released"
    octNs,          \* octNs.obj: the Namespace payload, 0 before alloc
    nsName,         \* octNs->name: the String createFromCString built
    ctxs,           \* the Context objects: [addr, rt, ns]
    contextsVec,    \* _contexts
    currentContext, \* _currentContext, per thread
    entriesPtr,     \* _namespaces.entries.obj
    nsCtorDone,     \* whether Hashtable::ctor has run on _namespaces
    registry,       \* what _namespaces holds: [key, val]
    tableOps,       \* put/get/dtor calls: [table, op, constructed]
    userTable,      \* a Hashtable of a client: [state, entries, size, dirty]
    ctxDeleted,     \* Contexts deleted by ~Runtime
    nsDtorCalled,   \* ~Runtime has run _namespaces.dtor
    eeDeleted,      \* ~Runtime has run delete _ee
    lastGet         \* the last getCurrentContext(): [thread, ctx]

guardVars == <<didLLVMInit, doingLLVMInit, gpc, gph, gtmp, initCalls,
               backendReady, observed, waited>>

heapVars == <<sysLive, sysAllocCalls, sysFreeCalls, sysBadFree, heapErr,
              boxes, freeLog>>

optVars == <<opts, optCall>>

bindVars == <<bindings, dtorCalls, nextObj, bpc, pending, exited>>

rtVars == <<rpc, ci, ee, octNs, nsName, ctxs, contextsVec, currentContext,
            entriesPtr, nsCtorDone, registry, tableOps, userTable, ctxDeleted,
            nsDtorCalled, eeDeleted, lastGet>>

\* What each part of the model leaves alone.
GuardFrame == UNCHANGED <<platform, heapVars, optVars, bindVars, rtVars>>
HeapFrame == UNCHANGED <<platform, guardVars, optVars, bindVars, rtVars>>
OptFrame == UNCHANGED <<platform, guardVars, heapVars, bindVars, rtVars>>
BindFrame == UNCHANGED <<platform, guardVars, heapVars, optVars, rtVars>>
RtFrame == UNCHANGED <<platform, guardVars, optVars, bindVars>>

IsWin(p) == p \in {"win32", "win64"}

\* ------------------------------------------------------ atomic primitives
\* atomicCompareExchangeUword: one interlocked step on both platforms.
CasSucceeds(cur, expected) == cur = expected

\* atomicGetUword.  _WIN32: a volatile read and a barrier, one step.
\* __APPLE__: val = *place, then a compare-and-swap of val with val, retried
\* until it succeeds.  The result is <<finished, value, phase', tmp'>>.
AtomicGet(p, ph, tmp, cur) ==
    IF IsWin(p) THEN <<TRUE, cur, "rd", tmp>>
    ELSE IF ph = "rd" THEN <<FALSE, cur, "cas", cur>>
    ELSE IF cur = tmp THEN <<TRUE, tmp, "rd", tmp>>
    ELSE <<FALSE, cur, "rd", tmp>>

\* atomicSetUword.  _WIN32: a volatile write and a barrier, one step.
\* __APPLE__: old = *place, then a compare-and-swap of old with value,
\* retried until it succeeds.  The result is <<finished, place', phase', tmp'>>.
AtomicSet(p, ph, tmp, cur, value) ==
    IF IsWin(p) THEN <<TRUE, value, "rd", tmp>>
    ELSE IF ph = "rd" THEN <<FALSE, cur, "cas", cur>>
    ELSE IF cur = tmp THEN <<TRUE, value, "rd", tmp>>
    ELSE <<FALSE, cur, "rd", tmp>>

\* ------------------------------------------------------------ data layout
\* typedef I32/U32 or I64/U64 Word, Uword: sizeof(Uword)
WordSize(p) == IF p = "win32" THEN 4 ELSE 8

Max(a, b) == IF a >= b THEN a ELSE b
RoundUp(n, a) == ((n + a - 1) \div a) * a

\* The element and object types the heap model allocates.
\* Entry is HashtableEntry< HashtableKey<String>, Owned<Namespace> >.
ObjTypes == {"U8", "F64", "Namespace"}
ElemTypes == {"U8", "Entry"}

\* sizeof(T).  Namespace: String (Uword, Owned) and Hashtable (Owned).
\* Entry: Option (Variant, union of two pointers) and an Owned.
SizeOf(p, T) ==
    CASE T = "U8" -> 1
      [] T = "F64" -> 8
      [] T = "Namespace" -> 3 * WordSize(p)
      [] T = "Entry" -> 4 * WordSize(p)

\* alignof(T): U8 1, F64 8 on all three builds, the structs a word.
AlignOf(p, T) ==
    CASE T = "U8" -> 1
      [] T = "F64" -> 8
      [] T = "Namespace" -> WordSize(p)
      [] T = "Entry" -> WordSize(p)

\* struct OwnedBoxHeader { Uword dummy; }
HeaderSize(p) == WordSize(p)

\* struct Array { Type* elementType; Uword size; T data[]; }
ArrayAlign(p, T) == Max(WordSize(p), AlignOf(p, T))
ArraySize(p, T) == RoundUp(2 * WordSize(p), ArrayAlign(p, T))

\* struct OwnedBox { OwnedBoxHeader header; T object; }: &box->object is the
\* header's size rounded up to the object's alignment.
ObjectOffset(p, align) == RoundUp(HeaderSize(p), align)
OwnedBoxSize(p, size, align) ==
    RoundUp(ObjectOffset(p, align) + size, Max(WordSize(p), align))

\* OwnedBox<T>::getBox: ((U8*)object) - sizeof(OwnedBoxHeader)
getBox(p, object) == object - HeaderSize(p)

\* ------------------------------------------------------ system allocator
SlotAddrs == {k * SlotStride : k \in 1..HeapSlots}
FreeSlots == SlotAddrs \ {b.addr : b \in sysLive}

HeapInit ==
    /\ sysLive = {}
    /\ sysAllocCalls = 0
    /\ sysFreeCalls = 0
    /\ sysBadFree = {}
    /\ heapErr = "none"
    /\ boxes = {}
    /\ freeLog = {}

\* System::free(place): ::free(place).  The allocator releases the block that
\* starts at place; any other address is recorded.
SysFreeLive(live, place) == {b \in live : b.addr # place}
SysFreeBad(live, bad, place) ==
    IF \E b \in live : b.addr = place THEN bad ELSE bad \cup {place}

\* ----------------------------------------------------------- ExchangeHeap
\* The size ExchangeHeap::allocArray asks SYS.alloc for.
AllocArrayRequest(p, T, length) == ArraySize(p, T) + SizeOf(p, T) * length

\* The bytes of an Array<T> payload of the given length.
ArrayBytes(p, T, length) == ArraySize(p, T) + SizeOf(p, T) * length

\* ExchangeHeap::alloc<T>: SYS.alloc(sizeof(OwnedBox<T>)); ret.obj = &box->object.
\* System::alloc throws std::bad_alloc when malloc returns null.
Alloc(T) ==
    /\ heapErr = "none"
    /\ IF FreeSlots = {}
       THEN /\ heapErr' = "bad_alloc"
            /\ UNCHANGED <<sysLive, sysAllocCalls, boxes>>
       ELSE \E a \in FreeSlots :
            LET size == OwnedBoxSize(platform, SizeOf(platform, T),
                                     AlignOf(platform, T))
                obj == a + ObjectOffset(platform, AlignOf(platform, T))
            IN  /\ sysLive' = sysLive \cup {[addr |-> a, size |-> size]}
                /\ sysAllocCalls' = sysAllocCalls + 1
                /\ boxes' = boxes \cup
                      {[obj |-> obj, block |-> a, size |-> size,
                        bytes |-> SizeOf(platform, T), kind |-> T]}
                /\ heapErr' = heapErr
    /\ UNCHANGED <<sysFreeCalls, sysBadFree, freeLog>>

\* ExchangeHeap::allocArray<T>(ctx, length)
AllocArray(T, length) ==
    /\ heapErr = "none"
    /\ IF FreeSlots = {}
       THEN /\ heapErr' = "bad_alloc"
            /\ UNCHANGED <<sysLive, sysAllocCalls, boxes>>
       ELSE \E a \in FreeSlots :
            LET size == AllocArrayRequest(platform, T, length)
                obj == a + ObjectOffset(platform, ArrayAlign(platform, T))
            IN  /\ sysLive' = sysLive \cup {[addr |-> a, size |-> size]}
                /\ sysAllocCalls' = sysAllocCalls + 1
                /\ boxes' = boxes \cup
                      {[obj |-> obj, block |-> a, size |-> size,
                        bytes |-> ArrayBytes(platform, T, length),
                        kind |-> "Array"]}
                /\ heapErr' = heapErr
    /\ UNCHANGED <<sysFreeCalls, sysBadFree, freeLog>>

\* ExchangeHeap::free(object): SYS.free(OwnedBox<Nothing>::getBox(object)).
FreeObj(object) ==
    /\ LET place == getBox(platform, object) IN
        /\ sysLive' = SysFreeLive(sysLive, place)
        /\ sysBadFree' = SysFreeBad(sysLive, sysBadFree, place)
        /\ freeLog' = freeLog \cup
              {[obj |-> b.obj, block |-> b.block, freed |-> place] :
                  b \in {x \in boxes : x.obj = object}}
    /\ sysFreeCalls' = sysFreeCalls + 1
    /\ boxes' = {x \in boxes : x.obj # object}
    /\ UNCHANGED <<sysAllocCalls, heapErr>>

\* A payload handed out is freed, once: it leaves boxes here.
Free(b) ==
    /\ b \in boxes
    /\ FreeObj(b.obj)

HeapNext ==
    \/ \E T \in ObjTypes : sysAllocCalls < MaxAllocs /\ Alloc(T) /\ HeapFrame
    \/ \E T \in ElemTypes, n \in 0..MaxLen :
          sysAllocCalls < MaxAllocs /\ AllocArray(T, n) /\ HeapFrame
    \/ \E b \in boxes : Free(b) /\ HeapFrame

\* ----------------------------------------------------------------- Option
\* enum Variant { NOTHING = 0, SOMETHING };
NOTHING == 0
SOMETHING == 1

Values == 0..MaxVal
OptCells == 1..NOpts

\* Option<T>::hasValue
hasValue(o) == o.variant = SOMETHING

\* Option<T>::getValue: throws on NOTHING, else returns value.  The result
\* is what was thrown or returned (ret holds the value returned, if any) and
\* the option as the call leaves it.
getValue_default(o) == [thrown |-> FALSE, ret |-> {o.value}, self |-> o]
getValue(o) ==
    IF o.variant = NOTHING
    THEN [thrown |-> TRUE, ret |-> {}, self |-> o]
    ELSE [thrown |-> FALSE, ret |-> {o.value}, self |-> o]

NoCall == [fn |-> "none", cell |-> 0, arg |-> [variant |-> NOTHING, value |-> 0],
           thrown |-> FALSE, ret |-> {}]

\* The union shares its bytes between nothing and value: a NOTHING option
\* holds whatever bytes are there.
OptInit ==
    /\ opts \in [OptCells -> [variant : {NOTHING, SOMETHING}, value : Values]]
    /\ optCall = NoCall

\* A client stores a variant and a value in an Option (it is an aggregate).
OptSet(i, variant, v) ==
    /\ opts' = [opts EXCEPT ![i] = [variant |-> variant, value |-> v]]
    /\ opts' # opts
    /\ optCall' = NoCall

OptHasValue(i) ==
    /\ optCall' = [fn |-> "hasValue", cell |-> i, arg |-> opts[i],
                   thrown |-> FALSE,
                   ret |-> {IF hasValue(opts[i]) THEN True ELSE False}]
    /\ optCall' # optCall
    /\ UNCHANGED opts

OptGetValue(i) ==
    /\ LET r == getValue(opts[i]) IN
        /\ optCall' = [fn |-> "getValue", cell |-> i, arg |-> opts[i],
                       thrown |-> r.thrown, ret |-> r.ret]
        /\ opts' = [opts EXCEPT ![i] = r.self]
    /\ optCall' # optCall

OptNext ==
    \E i \in OptCells :
        \/ \E variant \in {NOTHING, SOMETHING}, v \in Values : OptSet(i, variant, v) /\ OptFrame
        \/ OptHasValue(i) /\ OptFrame
        \/ OptGetValue(i) /\ OptFrame

\* --------------------------------------------------------- NamespaceEntry
\* enum Variant { NOTHING, OWNED_OBJECT, CONSTANT_OBJECT };
NE_NOTHING == 0
OWNED_OBJECT == 1
CONSTANT_OBJECT == 2

BindNames == {"a", "b"}
Objs == 1..MaxObjs
Absent == [variant |-> NE_NOTHING, obj |-> 0]

isNothing(e) == e.variant = NE_NOTHING
isOwned(e) == e.variant = OWNED_OBJECT
isConstant(e) == e.variant = CONSTANT_OBJECT

\* Owned< Object<Unknown> >::dtor: declared (PointerBase::dtor), defined
\* nowhere.  Section 4.1: release of an Owned invokes the referent's
\* destructor protocol, Object<T>::dtor, which calls vtable->fns.dtor.
Owned_dtor(calls, obj) == [calls EXCEPT ![obj] = @ + 1]

\* NamespaceEntry::dtor: if(isOwned()) owned.dtor(ctx);
NamespaceEntry_dtor_any(calls, e) ==
    IF ~isNothing(e) THEN Owned_dtor(calls, e.obj) ELSE calls
NamespaceEntry_dtor(calls, e) ==
    IF isOwned(e) THEN Owned_dtor(calls, e.obj) ELSE calls

BindInit ==
    /\ bindings = [n \in BindNames |-> Absent]
    /\ dtorCalls = [o \in Objs |-> 0]
    /\ nextObj = 1
    /\ bpc = "idle"
    /\ pending = [name |-> "a", entry |-> Absent]
    /\ exited = {}

\* Binding a name (section 4.5): the entry in the slot takes its exit
\* transition, the destructor of NamespaceEntry, before the new value is
\* installed.
BindBegin(n, variant) ==
    /\ bpc = "idle"
    /\ nextObj \in Objs
    /\ dtorCalls' = NamespaceEntry_dtor(dtorCalls, bindings[n])
    /\ pending' = [name |-> n, entry |-> [variant |-> variant, obj |-> nextObj]]
    /\ nextObj' = nextObj + 1
    /\ bpc' = "install"
    /\ UNCHANGED <<bindings, exited>>

\* The new value is installed: lookups of the name now find it.
BindInstall ==
    /\ bpc = "install"
    /\ bindings' = [bindings EXCEPT ![pending.name] = pending.entry]
    /\ exited' = IF isNothing(bindings[pending.name]) THEN exited
                 ELSE exited \cup {bindings[pending.name]}
    /\ bpc' = "idle"
    /\ UNCHANGED <<dtorCalls, nextObj, pending>>

\* Destroying a binding (section 4.5): its exit transition, then Absent.
BindDestroy(n) ==
    /\ bpc = "idle"
    /\ ~isNothing(bindings[n])
    /\ dtorCalls' = NamespaceEntry_dtor(dtorCalls, bindings[n])
    /\ exited' = exited \cup {bindings[n]}
    /\ bindings' = [bindings EXCEPT ![n] = Absent]
    /\ UNCHANGED <<nextObj, bpc, pending>>

\* Destroying an absent binding: NamespaceEntry::dtor on a NOTHING entry.
BindDestroyAbsent(n) ==
    /\ bpc = "idle"
    /\ isNothing(bindings[n])
    /\ nextObj \in Objs
    /\ dtorCalls' = NamespaceEntry_dtor(dtorCalls,
                        [variant |-> NE_NOTHING, obj |-> nextObj])
    /\ nextObj' = nextObj + 1
    /\ UNCHANGED <<bindings, exited, bpc, pending>>

BindNext ==
    \/ \E n \in BindNames, variant \in {OWNED_OBJECT, CONSTANT_OBJECT} :
          BindBegin(n, variant) /\ BindFrame
    \/ BindInstall /\ BindFrame
    \/ \E n \in BindNames : BindDestroy(n) /\ BindFrame
    \/ \E n \in BindNames : BindDestroyAbsent(n) /\ BindFrame

\* ------------------------------------------- Runtime::Runtime, the guard
\* if(!SYS.atomicGetUword(&didLLVMInit))
NeedsInit_always(val) == TRUE
NeedsInit(val) == val = False

\* while(SYS.atomicGetUword(&doingLLVMInit)) : the loop ends on a zero read
SpinExit_never(val) == FALSE
SpinExit_always(val) == TRUE
SpinExit(val) == val = False

GuardInit ==
    /\ didLLVMInit = False
    /\ doingLLVMInit = False
    /\ gpc = [t \in Threads |-> "idle"]
    /\ gph = [t \in Threads |-> "rd"]
    /\ gtmp = [t \in Threads |-> 0]
    /\ initCalls = 0
    /\ backendReady = FALSE
    /\ observed = [t \in Threads |-> "none"]
    /\ waited = [t \in Threads |-> FALSE]

\* A thread calls the constructor.
Enter(t) ==
    /\ gpc[t] = "idle"
    /\ gpc' = [gpc EXCEPT ![t] = "cas"]
    /\ UNCHANGED <<didLLVMInit, doingLLVMInit, gph, gtmp, initCalls,
                   backendReady, observed,
                   waited>>

\* if(SYS.atomicCompareExchangeUword(&doingLLVMInit, False, True))
CasDoing(t) ==
    /\ gpc[t] = "cas"
    /\ IF CasSucceeds(doingLLVMInit, False)
       THEN /\ doingLLVMInit' = True
            /\ gpc' = [gpc EXCEPT ![t] = "get_did"]
       ELSE /\ doingLLVMInit' = doingLLVMInit
            /\ gpc' = [gpc EXCEPT ![t] = "spin"]
    /\ UNCHANGED <<didLLVMInit, gph, gtmp, initCalls, backendReady, observed,
                   waited>>

\* if(!SYS.atomicGetUword(&didLLVMInit))
GetDid(t) ==
    /\ gpc[t] = "get_did"
    /\ LET r == AtomicGet(platform, gph[t], gtmp[t], didLLVMInit) IN
        /\ gph' = [gph EXCEPT ![t] = r[3]]
        /\ gtmp' = [gtmp EXCEPT ![t] = r[4]]
        /\ gpc' = [gpc EXCEPT ![t] =
                      IF ~r[1] THEN "get_did"
                      ELSE IF NeedsInit(r[2]) THEN "init" ELSE "set_doing"]
    /\ UNCHANGED <<didLLVMInit, doingLLVMInit, initCalls, backendReady,
                   observed,
                   waited>>

\* llvm::InitializeNativeTarget();
CallInit(t) ==
    /\ gpc[t] = "init"
    /\ initCalls' = initCalls + 1
    /\ backendReady' = TRUE
    /\ gpc' = [gpc EXCEPT ![t] = "set_did"]
    /\ UNCHANGED <<didLLVMInit, doingLLVMInit, gph, gtmp, observed,
                   waited>>

\* SYS.atomicSetUword(&didLLVMInit, True);
SetDid(t) ==
    /\ gpc[t] = "set_did"
    /\ LET r == AtomicSet(platform, gph[t], gtmp[t], didLLVMInit, True) IN
        /\ didLLVMInit' = r[2]
        /\ gph' = [gph EXCEPT ![t] = r[3]]
        /\ gtmp' = [gtmp EXCEPT ![t] = r[4]]
        /\ gpc' = [gpc EXCEPT ![t] = IF r[1] THEN "set_doing" ELSE "set_did"]
    /\ UNCHANGED <<doingLLVMInit, initCalls, backendReady, observed,
                   waited>>

\* SYS.atomicSetUword(&doingLLVMInit, False); result is true: no throw.
SetDoing(t) ==
    /\ gpc[t] = "set_doing"
    /\ LET r == AtomicSet(platform, gph[t], gtmp[t], doingLLVMInit, False) IN
        /\ doingLLVMInit' = r[2]
        /\ gph' = [gph EXCEPT ![t] = r[3]]
        /\ gtmp' = [gtmp EXCEPT ![t] = r[4]]
        /\ gpc' = [gpc EXCEPT ![t] = IF r[1] THEN "jit" ELSE "set_doing"]
    /\ UNCHANGED <<didLLVMInit, initCalls, backendReady, observed,
                   waited>>

\* while(SYS.atomicGetUword(&doingLLVMInit))
SpinGet(t) ==
    /\ gpc[t] = "spin"
    /\ LET r == AtomicGet(platform, gph[t], gtmp[t], doingLLVMInit) IN
        /\ gph' = [gph EXCEPT ![t] = r[3]]
        /\ gtmp' = [gtmp EXCEPT ![t] = r[4]]
        /\ gpc' = [gpc EXCEPT ![t] =
                      IF ~r[1] THEN "spin"
                      ELSE IF SpinExit(r[2]) THEN "jit" ELSE "sleep"]
    /\ UNCHANGED <<didLLVMInit, doingLLVMInit, initCalls, backendReady,
                   observed,
                   waited>>

\* SYS.sleep(0);
SpinSleep(t) ==
    /\ gpc[t] = "sleep"
    /\ gpc' = [gpc EXCEPT ![t] = "spin"]
    /\ waited' = [waited EXCEPT ![t] = TRUE]
    /\ UNCHANGED <<didLLVMInit, doingLLVMInit, gph, gtmp, initCalls,
                   backendReady, observed>>

\* _jitModule = new llvm::Module(...); _ee = createJIT(_jitModule);
\* the first statements past the guard: they use the backend as they find it.
CreateJIT(t) ==
    /\ gpc[t] = "jit"
    /\ observed' = [observed EXCEPT ![t] =
                       IF backendReady THEN "ready" ELSE "unready"]
    /\ gpc' = [gpc EXCEPT ![t] = "past"]
    /\ UNCHANGED <<didLLVMInit, doingLLVMInit, gph, gtmp, initCalls,
                   backendReady,
                   waited>>

GuardNext ==
    \E t \in Threads :
        \/ Enter(t) /\ GuardFrame
        \/ CasDoing(t) /\ GuardFrame
        \/ GetDid(t) /\ GuardFrame
        \/ CallInit(t) /\ GuardFrame
        \/ SetDid(t) /\ GuardFrame
        \/ SetDoing(t) /\ GuardFrame
        \/ SpinGet(t) /\ GuardFrame
        \/ SpinSleep(t) /\ GuardFrame
        \/ CreateJIT(t) /\ GuardFrame

\* The steps of thread t once it has called the constructor: the statements of
\* lines 661-682, each run by the native thread that called Runtime::Runtime.
GuardStep(t) ==
    \/ CasDoing(t) /\ GuardFrame
    \/ GetDid(t) /\ GuardFrame
    \/ CallInit(t) /\ GuardFrame
    \/ SetDid(t) /\ GuardFrame
    \/ SetDoing(t) /\ GuardFrame
    \/ SpinGet(t) /\ GuardFrame
    \/ SpinSleep(t) /\ GuardFrame
    \/ CreateJIT(t) /\ GuardFrame

\* The guarded section of the thread that won the compare-and-exchange:
\* lines 662-667.
InGuarded(pc) == pc \in {"get_did", "init", "set_did", "set_doing"}

\* ---------------------------------------------------------------- Hashtable
\* Hashtable::ctor: allocArray< HashtableEntry<...> >(ctx, 100)
Capacity == 100

\* The variant of slot i's key in a table's entries array.  Neither
\* allocArray nor Hashtable::ctor writes the array: its slots hold what
\* malloc left there, here any bytes in the slots 1..MaxDirty.
SlotKeyVariant(t, i) == IF i \in t.dirty THEN SOMETHING ELSE NOTHING

RawTable == [state |-> "raw", entries |-> 0, size |-> 0, dirty |-> {}]

\* ------------------------------------------------------------------ String
\* "octarine", and the terminator byte
OctarineCStr == <<"o", "c", "t", "a", "r", "i", "n", "e">>
NUL == ""

\* String::createFromCString, given the array allocArray returned
createFromCString(str, data) ==
    [numCodepoints |-> Len(str), data |-> data, size |-> Len(str) + 1,
     bytes |-> str \o <<NUL>>]

NoString == [numCodepoints |-> 0, data |-> 0, size |-> 0, bytes |-> <<>>]

\* ---------------------------------------- Runtime: constructor, destructor
\* The Runtime under construction (this), and the thread constructing it.
RtId == "rt"
MainThread == 1

\* Context::getNamespace, Context::getRuntime
getNamespace(c) == c.ns
getRuntime(c) == c.rt

\* Runtime::~Runtime: the order of its three steps.
DtorOrder_nsFirst == <<"d_ns", "d_ctx", "d_ee">>
DtorOrder == <<"d_ctx", "d_ns", "d_ee">>

DtorStepAfter(step) ==
    LET i == CHOOSE k \in 1..Len(DtorOrder) : DtorOrder[k] = step IN
    IF i < Len(DtorOrder) THEN DtorOrder[i + 1] ELSE "destroyed"

\* _namespaces is default-initialised: entries.obj holds whatever the
\* Runtime's storage held: null, the address a payload will get, or an
\* address outside the heap.
WildPtrs(p) == {0, SlotStride + HeaderSize(p), (HeapSlots + 1) * SlotStride}

\* The state in which the guard has been passed by the constructing thread
\* (the first Runtime of the process: it initialised the backend).
GuardPassed ==
    /\ didLLVMInit = True
    /\ doingLLVMInit = False
    /\ gpc = [t \in Threads |-> IF t = MainThread THEN "past" ELSE "idle"]
    /\ gph = [t \in Threads |-> "rd"]
    /\ gtmp = [t \in Threads |-> 0]
    /\ initCalls = 1
    /\ backendReady = TRUE
    /\ observed = [t \in Threads |-> IF t = MainThread THEN "ready" ELSE "none"]
    /\ waited = [t \in Threads |-> FALSE]

\* The Runtime before its constructor body runs; _namespaces.entries holds
\* the pointer given.
RtFresh(entries) ==
    /\ rpc = "jit"
    /\ ci = 1
    /\ ee = "none"
    /\ octNs = 0
    /\ nsName = NoString
    /\ ctxs = {}
    /\ contextsVec = <<>>
    /\ currentContext = [t \in Threads |-> 0]
    /\ entriesPtr = entries
    /\ nsCtorDone = FALSE
    /\ registry = {}
    /\ tableOps = {}
    /\ userTable = RawTable
    /\ ctxDeleted = {}
    /\ nsDtorCalled = FALSE
    /\ eeDeleted = FALSE
    /\ lastGet = [thread |-> 0, ctx |-> 0]

RtInit == \E p \in WildPtrs(platform) : RtFresh(p)

\* The payload the exchange heap has just handed out.
NewBox == CHOOSE b \in boxes' : b \notin boxes

\* _ee = llvm::ExecutionEngine::createJIT(_jitModule); assert(_ee && ...):
\* the engine, or null; on null the assert aborts, or is compiled out (NDEBUG).
RtCreateJIT ==
    /\ rpc = "jit"
    /\ \E got \in {"live", "null"}, asserts \in BOOLEAN :
        /\ ee' = got
        /\ rpc' = IF got = "null" /\ asserts THEN "aborted" ELSE "alloc_ns"
    /\ UNCHANGED <<ci, octNs, nsName, ctxs, contextsVec, currentContext,
                   entriesPtr, nsCtorDone, registry, tableOps, userTable,
                   ctxDeleted, nsDtorCalled, eeDeleted, lastGet>>
    /\ UNCHANGED heapVars

\* Owned<Namespace> octNs = _exchangeHeap.alloc<Namespace>(nullptr);
RtAllocNs ==
    /\ rpc = "alloc_ns"
    /\ Alloc("Namespace")
    /\ IF heapErr' = "none"
       THEN octNs' = NewBox.obj /\ rpc' = "new_ctx"
       ELSE octNs' = octNs /\ rpc' = "aborted"
    /\ UNCHANGED <<ci, ee, nsName, ctxs, contextsVec, currentContext,
                   entriesPtr, nsCtorDone, registry, tableOps, userTable,
                   ctxDeleted, nsDtorCalled, eeDeleted, lastGet>>

\* Context* mainCtx = new Context(this, octNs.obj);  (_rt(rt), _ns(ns))
RtNewContext ==
    /\ rpc = "new_ctx"
    /\ FreeSlots # {}
    /\ \E a \in FreeSlots :
        /\ sysLive' = sysLive \cup {[addr |-> a, size |-> 2 * WordSize(platform)]}
        /\ ctxs' = ctxs \cup {[addr |-> a, rt |-> RtId, ns |-> octNs]}
    /\ sysAllocCalls' = sysAllocCalls + 1
    /\ rpc' = "name"
    /\ UNCHANGED <<sysFreeCalls, sysBadFree, heapErr, boxes, freeLog>>
    /\ UNCHANGED <<ci, ee, octNs, nsName, contextsVec, currentContext,
                   entriesPtr, nsCtorDone, registry, tableOps, userTable,
                   ctxDeleted, nsDtorCalled, eeDeleted, lastGet>>

\* octNs->name = String::createFromCString(mainCtx, "octarine");
RtCreateName ==
    /\ rpc = "name"
    /\ AllocArray("U8", Len(OctarineCStr) + 1)
    /\ IF heapErr' = "none"
       THEN /\ nsName' = createFromCString(OctarineCStr, NewBox.obj)
            /\ rpc' = "put"
       ELSE nsName' = nsName /\ rpc' = "aborted"
    /\ UNCHANGED <<ci, ee, octNs, ctxs, contextsVec, currentContext,
                   entriesPtr, nsCtorDone, registry, tableOps, userTable,
                   ctxDeleted, nsDtorCalled, eeDeleted, lastGet>>

\* Hashtable::put (its body is "#error implement!").  Section 4.4: put
\* stores the value under the key, in a slot of the entries array.  On a
\* table whose entries pointer was never set the store goes through an
\* indeterminate pointer: it faults, or writes somewhere that no lookup reads.
Hashtable_put(constructed, held, key, val) ==
    IF constructed
    THEN {[fault |-> FALSE,
           held |-> {e \in held : e.key # key} \cup {[key |-> key, val |-> val]}]}
    ELSE {[fault |-> TRUE, held |-> held], [fault |-> FALSE, held |-> held]}

\* _namespaces.put(octNs->name, octNs);
RtPutNs ==
    /\ rpc = "put"
    /\ tableOps' = tableOps \cup
          {[table |-> "_namespaces", op |-> "put", constructed |-> nsCtorDone]}
    /\ \E r \in Hashtable_put(nsCtorDone, registry, nsName.bytes, octNs) :
        /\ registry' = r.held
        /\ rpc' = IF r.fault THEN "fault" ELSE "push"
    /\ UNCHANGED <<ci, ee, octNs, nsName, ctxs, contextsVec, currentContext,
                   entriesPtr, nsCtorDone, userTable, ctxDeleted,
                   nsDtorCalled, eeDeleted, lastGet>>
    /\ UNCHANGED heapVars

\* _contexts.push_back(mainCtx);
RtPushCtx ==
    /\ rpc = "push"
    /\ contextsVec' = contextsVec \o <<(CHOOSE c \in ctxs : TRUE).addr>>
    /\ rpc' = "set_tls"
    /\ UNCHANGED <<ci, ee, octNs, nsName, ctxs, currentContext, entriesPtr,
                   nsCtorDone, registry, tableOps, userTable, ctxDeleted,
                   nsDtorCalled, eeDeleted, lastGet>>
    /\ UNCHANGED heapVars

\* _currentContext.set(mainCtx);
RtSetCurrent ==
    /\ rpc = "set_tls"
    /\ currentContext' = [currentContext EXCEPT
                             ![MainThread] = (CHOOSE c \in ctxs : TRUE).addr]
    /\ rpc' = "constructed"
    /\ UNCHANGED <<ci, ee, octNs, nsName, ctxs, contextsVec, entriesPtr,
                   nsCtorDone, registry, tableOps, userTable, ctxDeleted,
                   nsDtorCalled, eeDeleted, lastGet>>
    /\ UNCHANGED heapVars

\* Runtime::getCurrentContext: _currentContext.get(), on any thread
getCurrentContext(t) ==
    /\ rpc = "constructed"
    /\ lastGet' = [thread |-> t, ctx |-> currentContext[t]]
    /\ lastGet' # lastGet
    /\ UNCHANGED <<rpc, ci, ee, octNs, nsName, ctxs, contextsVec,
                   currentContext, entriesPtr, nsCtorDone, registry, tableOps,
                   userTable, ctxDeleted, nsDtorCalled, eeDeleted>>
    /\ UNCHANGED heapVars

\* Hashtable::ctor(ctx), by a client on a table of its own:
\* entries = ...allocArray< HashtableEntry<...> >(ctx, 100).  The Array's size
\* field and its slots are not written.
Hashtable_ctor ==
    /\ rpc = "constructed"
    /\ userTable.state = "raw"
    /\ AllocArray("Entry", Capacity)
    /\ IF heapErr' = "none"
       THEN \E size \in {0, Capacity}, dirty \in SUBSET (1..MaxDirty) :
              userTable' = [state |-> "constructed", entries |-> NewBox.obj,
                            size |-> size, dirty |-> dirty]
       ELSE userTable' = userTable
    /\ UNCHANGED <<rpc, ci, ee, octNs, nsName, ctxs, contextsVec,
                   currentContext, entriesPtr, nsCtorDone, registry, tableOps,
                   ctxDeleted, nsDtorCalled, eeDeleted, lastGet>>

\* Hashtable::dtor(ctx): entries.dtor(ctx).  Owned< Array<...> >::dtor is
\* declared (PointerBase::dtor) and defined nowhere; section 4.1: release of
\* an Owned returns the backing memory to its allocator.
Hashtable_dtor ==
    /\ rpc = "constructed"
    /\ userTable.state = "constructed"
    /\ tableOps' = tableOps \cup
          {[table |-> "client", op |-> "dtor", constructed |-> TRUE]}
    /\ FreeObj(userTable.entries)
    /\ userTable' = [userTable EXCEPT !.state = "destroyed"]
    /\ UNCHANGED <<rpc, ci, ee, octNs, nsName, ctxs, contextsVec,
                   currentContext, entriesPtr, nsCtorDone, registry,
                   ctxDeleted, nsDtorCalled, eeDeleted, lastGet>>

\* Runtime::~Runtime is entered.
RtDtorBegin ==
    /\ rpc = "constructed"
    /\ rpc' = DtorOrder[1]
    /\ ci' = 1
    /\ UNCHANGED <<ee, octNs, nsName, ctxs, contextsVec, currentContext,
                   entriesPtr, nsCtorDone, registry, tableOps, userTable,
                   ctxDeleted, nsDtorCalled, eeDeleted, lastGet>>
    /\ UNCHANGED heapVars

\* for(ci = _contexts.begin(); ci != _contexts.end(); ++ci) delete (*ci);
RtDeleteCtx ==
    /\ rpc = "d_ctx"
    /\ IF ci <= Len(contextsVec)
       THEN /\ sysLive' = SysFreeLive(sysLive, contextsVec[ci])
            /\ sysBadFree' = SysFreeBad(sysLive, sysBadFree, contextsVec[ci])
            /\ sysFreeCalls' = sysFreeCalls + 1
            /\ ctxDeleted' = ctxDeleted \cup {contextsVec[ci]}
            /\ ci' = ci + 1
            /\ rpc' = rpc
       ELSE /\ rpc' = DtorStepAfter("d_ctx")
            /\ UNCHANGED <<sysLive, sysBadFree, sysFreeCalls, ctxDeleted, ci>>
    /\ UNCHANGED <<sysAllocCalls, heapErr, boxes, freeLog>>
    /\ UNCHANGED <<ee, octNs, nsName, ctxs, contextsVec, currentContext,
                   entriesPtr, nsCtorDone, registry, tableOps, userTable,
                   nsDtorCalled, eeDeleted, lastGet>>

\* _namespaces.dtor(nullptr): entries.dtor(ctx) on the registry's entries,
\* which no ctor set.  The release through the indeterminate pointer faults,
\* or hands the allocator the address in front of it.
RtDtorNamespaces ==
    /\ rpc = "d_ns"
    /\ tableOps' = tableOps \cup
          {[table |-> "_namespaces", op |-> "dtor", constructed |-> nsCtorDone]}
    /\ nsDtorCalled' = TRUE
    /\ \/ /\ FreeObj(entriesPtr)
          /\ rpc' = DtorStepAfter("d_ns")
       \/ /\ ~nsCtorDone
          /\ rpc' = "fault"
          /\ UNCHANGED heapVars
    /\ UNCHANGED <<ci, ee, octNs, nsName, ctxs, contextsVec, currentContext,
                   entriesPtr, nsCtorDone, registry, userTable, ctxDeleted,
                   eeDeleted, lastGet>>

\* delete _ee;
RtDeleteEE ==
    /\ rpc = "d_ee"
    /\ ee' = IF ee = "live" THEN "released" ELSE ee
    /\ eeDeleted' = TRUE
    /\ rpc' = DtorStepAfter("d_ee")
    /\ UNCHANGED <<ci, octNs, nsName, ctxs, contextsVec, currentContext,
                   entriesPtr, nsCtorDone, registry, tableOps, userTable,
                   ctxDeleted, nsDtorCalled, lastGet>>
    /\ UNCHANGED heapVars

RtNext ==
    \/ RtCreateJIT /\ RtFrame
    \/ RtAllocNs /\ RtFrame
    \/ RtNewContext /\ RtFrame
    \/ RtCreateName /\ RtFrame
    \/ RtPutNs /\ RtFrame
    \/ RtPushCtx /\ RtFrame
    \/ RtSetCurrent /\ RtFrame
    \/ \E t \in Threads : getCurrentContext(t) /\ RtFrame
    \/ Hashtable_ctor /\ RtFrame
    \/ Hashtable_dtor /\ RtFrame
    \/ RtDtorBegin /\ RtFrame
    \/ RtDeleteCtx /\ RtFrame
    \/ RtDtorNamespaces /\ RtFrame
    \/ RtDeleteEE /\ RtFrame

\* --------------------------------------------------------- specifications
vars == <<platform, guardVars, heapVars, optVars, bindVars, rtVars>>

\* The Option model idle, as every specification but its own starts it.
OptIdle ==
    /\ opts = [i \in OptCells |-> [variant |-> NOTHING, value |-> 0]]
    /\ optCall = NoCall

\* N threads construct a Runtime each, concurrently.
InitGuard ==
    /\ platform \in Platforms
    /\ GuardInit /\ HeapInit /\ OptIdle /\ BindInit /\ RtFresh(0)

SpecGuard == InitGuard /\ [][GuardNext]_vars

\* The same threads under a fair scheduler: a thread that has called the
\* constructor is a native thread the operating system keeps running, and
\* SYS.sleep(0) only yields the processor.  Whether a thread calls the
\* constructor at all is left open.
SpecGuardFair ==
    /\ InitGuard
    /\ [][GuardNext]_vars
    /\ \A t \in Threads : WF_vars(GuardStep(t))

\* A client of the exchange heap allocates and frees.
InitHeap ==
    /\ platform \in Platforms
    /\ GuardInit /\ HeapInit /\ OptIdle /\ BindInit /\ RtFresh(0)

SpecHeap == InitHeap /\ [][HeapNext]_vars

\* A client of Option sets cells and calls hasValue and getValue.
InitOption ==
    /\ platform \in Platforms
    /\ GuardInit /\ HeapInit /\ OptInit /\ BindInit /\ RtFresh(0)

SpecOption == InitOption /\ [][OptNext]_vars

\* Names are bound, overwritten and destroyed in a namespace.
InitBinding ==
    /\ platform \in Platforms
    /\ GuardInit /\ HeapInit /\ OptIdle /\ BindInit /\ RtFresh(0)

SpecBinding == InitBinding /\ [][BindNext]_vars

\* The main thread, past the guard, constructs the Runtime, uses it and
\* destroys it.
InitRuntime ==
    /\ platform \in Platforms
    /\ GuardPassed /\ HeapInit /\ OptIdle /\ BindInit /\ RtInit

SpecRuntime == InitRuntime /\ [][RtNext]_vars

\* ------------------------------------------------------------------ claims
\* A thread is past the guard once it has left both branches of the if.
PastGuard(t) == gpc[t] \in {"jit", "past"}

C3_FreeRecoversBlock ==
    /\ \A e \in freeLog : e.freed = e.block /\ e.freed = e.obj - HeaderSize(platform)
    /\ sysBadFree = {}
    /\ sysFreeCalls + Cardinality(boxes) = sysAllocCalls
    /\ boxes = {} => sysLive = {}

\* C9: allocArray requests a block that covers the box header and the whole
\* payload, and returns a payload address header-size bytes past the block
\* start, so that every payload byte lies inside the block.
C9_ArrayInsideBlock ==
    \A b \in boxes :
        b.kind = "Array" =>
            /\ b.obj = b.block + HeaderSize(platform)
            /\ b.size >= HeaderSize(platform) + b.bytes
            /\ b.obj + b.bytes <= b.block + b.size

C8_GetValue ==
    optCall.fn = "getValue" =>
        /\ optCall.arg.variant = NOTHING =>
              optCall.thrown /\ optCall.ret = {}
        /\ optCall.arg.variant = SOMETHING =>
              /\ ~optCall.thrown
              /\ optCall.ret = {optCall.arg.value}
        /\ opts[optCall.cell] = optCall.arg

\* getValue has been called on a NOTHING option whose bytes hold a value.
C8_Witness ==
    /\ optCall.fn = "getValue"
    /\ optCall.arg.variant = NOTHING
    /\ optCall.arg.value # 0

\* C4: teardown runs in a fixed order: every Context of the context list is
\* destroyed first, then the namespace registry, and only then is the engine
\* released.
C4_TeardownOrder ==
    /\ nsDtorCalled =>
          \A i \in 1..Len(contextsVec) : contextsVec[i] \in ctxDeleted
    /\ eeDeleted => nsDtorCalled
    /\ ctxDeleted # {} => rpc \in {"d_ctx", "d_ns", "d_ee", "destroyed", "fault"}

\* The destructor has run to its end: the Context, the registry, the engine.
C4_Witness ==
    /\ rpc = "destroyed"
    /\ ctxDeleted # {} /\ nsDtorCalled /\ eeDeleted /\ ee = "released"

\* The blocks of the system allocator that are not a client's table.
RuntimeBlocks == {b \in sysLive : b.addr + HeaderSize(platform) # userTable.entries}

\* C5: constructing a Runtime and then destroying it leaves zero outstanding
\* allocations, and the destructor releases no block that was never
\* allocated.
C5_NoOutstanding ==
    rpc = "destroyed" => RuntimeBlocks = {} /\ sysBadFree = {}

\* C6: when construction completes the registry holds a namespace named
\* "octarine", the context list holds exactly the main Context, whose
\* namespace is that namespace and whose runtime is the constructing Runtime,
\* and getCurrentContext() on the constructing thread returns that Context.
C6_Constructed ==
    rpc = "constructed" =>
        /\ nsName.bytes = OctarineCStr \o <<NUL>>
        /\ [key |-> OctarineCStr \o <<NUL>>, val |-> octNs] \in registry
        /\ Len(contextsVec) = 1
        /\ \E c \in ctxs :
              /\ c.addr = contextsVec[1]
              /\ getNamespace(c) = octNs /\ octNs # 0
              /\ getRuntime(c) = RtId
              /\ currentContext[MainThread] = c.addr
        /\ lastGet.thread = MainThread => lastGet.ctx = contextsVec[1]

\* C10: a constructed Hashtable has the capacity chosen at construction and
\* every slot's key is the empty marker; and no put, get or destroy is
\* applied to a Hashtable whose backing array has not been constructed.
C10_TableConstructed ==
    /\ userTable.state = "constructed" =>
          /\ userTable.size = Capacity
          /\ \A i \in 1..Capacity : SlotKeyVariant(userTable, i) = NOTHING
    /\ \A o \in tableOps : o.constructed

\* C11: with finitely many threads constructing a Runtime and a fair
\* scheduler, every thread that has entered the constructor eventually leaves
\* the init guard: from some point on every thread that has entered is past
\* the guard (a thread enters once and never comes back into the guard, so
\* this is the same as each of them leaving eventually).  And a thread that
\* won the compare-and-exchange leaves the guarded section only by the step
\* that stores False in doingLLVMInit.
AllEnteredPast == \A t \in Threads : (gpc[t] # "idle") => PastGuard(t)

====
